---- MODULE Spec2Model ----
(***************************************************************************)
(* Model of the SMPP transmitter client (Ucell-first/smpp2):               *)
(*   src/pdu.go        pdu, Client (Connect, bind, SendSMS, Disconnect,    *)
(*                     nextSequence, sendPDU)                              *)
(*   src/connection.go connection (connect, connectTLS, close, writePDU,   *)
(*                     readPDU)                                            *)
(* The client is synchronous: an API call runs up to its writePDU, blocks  *)
(* in readPDU (pc says in which exchange), and finishes when readPDU       *)
(* returns a PDU or an error.  The gateway is the environment: it answers  *)
(* the oldest request it has not answered yet, or never answers it.        *)
(* A uint32 that can reach 2^31 is computed in 16-bit limbs <<hi, lo>>.    *)
(***************************************************************************)
EXTENDS Integers, Sequences, FiniteSets, TLC

VARIABLES
    bound,        \* Client.bound
    sequenceNum,  \* Client.sequenceNum
    conn,         \* connection.conn: NoSock (nil) or the socket it references
    openSocks,    \* sockets dialled and not yet closed
    pc,           \* "idle", or the exchange whose readPDU is blocking
    pending,      \* requests written on the current socket, not yet answered
    call,         \* the API call in progress or last made
    ret,          \* what that call returned (done = FALSE while it runs)
    req,          \* the PDU last written by writePDU
    resp,         \* the PDU returned by the last readPDU of this call
    written,      \* number of PDUs written
    settled       \* number of reads that returned (a PDU or an error)

vars == <<bound, sequenceNum, conn, openSocks, pc, pending, call, ret, req,
          resp, written, settled>>

----------------------------------------------------------------------------
(* Bounds *)

MaxCalls == 3          \* API calls per behaviour
MaxLen == 256          \* longest payload handed to SendSMS
SeqWindow == 40        \* how far below 0x7FFFFFFF the counter check starts
MaxSeqCalls == 3       \* nextSequence calls per behaviour of SpecSeq
MaxParts == 3          \* most parts a payload handed to SendLongSMS needs
MaxIOCalls == 2        \* writePDU / readPDU calls per behaviour of SpecRead

----------------------------------------------------------------------------
(* Constants of the program *)

Limb == 65536
HighBit == 32768                      \* 0x8000: top bit of the high limb

BIND_TRANSMITTER == <<0, 2>>
BIND_TRANSMITTER_RESP == <<HighBit, 2>>
SUBMIT_SM == <<0, 4>>
SUBMIT_SM_RESP == <<HighBit, 4>>
UNBIND == <<0, 6>>
UNBIND_RESP == <<HighBit, 6>>

SeqMax == 2147483647                  \* 0x7FFFFFFF
MaxShortMessage == 254
MaxPartGSM == 153
MaxPartUnicode == 67
HeaderLen == 16

NoSock == 0

ErrNil == "nil"
ErrDial == "dial failed"
ErrNotConnected == "not connected"
ErrWrite == "write failed"
ErrRead == "read failed or timed out"
ErrBindFailed == "bind failed"
ErrNotBound == "not bound to SMPP server"
ErrTooLong == "message too long"
ErrStatus == "submit_sm failed with status"
ErrClose == "close failed"
ErrPart == "failed to send part"
ErrPanic == "panic: makeslice: len out of range"

----------------------------------------------------------------------------
(* Configuration and inputs *)

systemID == <<105, 100>>
password == <<112, 119>>
SourceAddr == <<49>>
DestAddr == <<50, 51>>

Payload(n) == [i \in 1..n |-> i % 256]

MsgLens == {0, 1} \cup (253..MaxLen)

Msg(n, unicode, binary, report) ==
    [SourceAddr |-> SourceAddr, DestAddr |-> DestAddr, Message |-> Payload(n),
     IsUnicode |-> unicode, IsBinary |-> binary,
     RequestDeliveryReport |-> report]

\* Every length with the default flags, every flag combination on one byte.
Messages ==
    {Msg(n, FALSE, FALSE, FALSE) : n \in MsgLens} \cup
    {Msg(1, u, b, r) : u \in BOOLEAN, b \in BOOLEAN, r \in BOOLEAN}

\* SendLongSMS: maxLength
maxLengthOf(msg) == IF msg.IsUnicode THEN MaxPartUnicode ELSE MaxPartGSM

\* One part, two parts with a one-byte tail, a whole number of parts.
LongLens(L) == {L, L + 1, MaxParts * L}

\* 300: 153 + 147
LongMessages ==
    {Msg(n, FALSE, FALSE, FALSE) : n \in LongLens(MaxPartGSM) \cup {300}} \cup
    {Msg(n, TRUE, FALSE, FALSE) : n \in LongLens(MaxPartUnicode)}

NoMsg == [SourceAddr |-> <<>>, DestAddr |-> <<>>, Message |-> <<>>,
          IsUnicode |-> FALSE, IsBinary |-> FALSE,
          RequestDeliveryReport |-> FALSE]

\* What the gateway may put in a response frame.
PeerCommandIDs == {BIND_TRANSMITTER_RESP, SUBMIT_SM_RESP, UNBIND_RESP}
PeerStatuses == (0..10) \cup {88, 99}
PeerBodies == {<<>>, <<65, 0>>, <<66>>}

----------------------------------------------------------------------------
(* pdu *)

newPDU(commandID, sequenceNumber) ==
    [commandLength |-> HeaderLen, commandID |-> commandID, commandStatus |-> 0,
     sequenceNumber |-> sequenceNumber, body |-> <<>>]

NoPDU == [commandLength |-> 0, commandID |-> <<0, 0>>, commandStatus |-> 0,
          sequenceNumber |-> 0, body |-> <<>>]

write(p, data) == [p EXCEPT !.body = @ \o data]

writeByte(p, b) == [p EXCEPT !.body = Append(@, b)]

writeString(p, s) ==
    LET q == IF Len(s) > 0 THEN [p EXCEPT !.body = @ \o s] ELSE p
    IN  [q EXCEPT !.body = Append(@, 0)]

\* byte(n) for a non-negative int
ToByte(n) == n % 256

----------------------------------------------------------------------------
(* Client.nextSequence: returns the current value, then increments the     *)
(* uint32 counter and resets it to 1 when it is above 0x7FFFFFFF.          *)

nextSequenceEarlyWrap(s) ==
    [seq |-> s, next |-> IF s >= SeqMax - 1 THEN 1 ELSE s + 1]

nextSequence(s) ==
    LET lo1 == ((s % Limb) + 1) % Limb
        hi1 == ((s \div Limb) + (((s % Limb) + 1) \div Limb)) % Limb
    IN  [seq |-> s,
         next |-> IF hi1 >= HighBit THEN 1 ELSE hi1 * Limb + lo1]

----------------------------------------------------------------------------
(* connection *)

\* connection.connect / connectTLS: on success conn references the new
\* socket (whatever it referenced before); on failure conn is untouched.
connect(cn, sock, dialOK) ==
    IF dialOK THEN [err |-> ErrNil, conn |-> sock, opened |-> {sock}]
    ELSE [err |-> ErrDial, conn |-> cn, opened |-> {}]

connectTLS(cn, sock, dialOK) ==
    IF dialOK THEN [err |-> ErrNil, conn |-> sock, opened |-> {sock}]
    ELSE [err |-> ErrDial, conn |-> cn, opened |-> {}]

closeKeepsFailedSocket(cn, closeErr) ==
    IF cn = NoSock THEN [err |-> ErrNil, conn |-> NoSock, closed |-> {}]
    ELSE IF closeErr # ErrNil
    THEN [err |-> closeErr, conn |-> cn, closed |-> {}]
    ELSE [err |-> closeErr, conn |-> NoSock, closed |-> {cn}]

\* connection.close: closeErr is what net.Conn.Close returns.
close(cn, closeErr) ==
    IF cn = NoSock THEN [err |-> ErrNil, conn |-> NoSock, closed |-> {}]
    ELSE [err |-> closeErr, conn |-> NoSock, closed |-> {cn}]

\* connection.writePDU: ioOK is whether the deadline call and the writes
\* to the socket succeed.
writePDU(cn, p, ioOK) ==
    IF cn = NoSock THEN [err |-> ErrNotConnected, pdu |-> p, wrote |-> FALSE]
    ELSE IF ~ioOK THEN [err |-> ErrWrite, pdu |-> p, wrote |-> FALSE]
    ELSE [err |-> ErrNil,
          pdu |-> [p EXCEPT !.commandLength = HeaderLen + Len(p.body)],
          wrote |-> TRUE]

\* a - b in uint32, as limbs <<hi, lo>> (a and b below 2^31)
Sub32(a, b) == <<((a - b) \div Limb) % Limb, (a - b) % Limb>>

\* What the gateway sends for one read: a 16-byte header, the bytes after
\* it, and whether it keeps sending bytes after those for as long as the
\* client reads (enough to fill any buffer before the deadline).
RawFrame(commandLength, commandID, commandStatus, sequenceNumber, stream, more) ==
    [commandLength |-> commandLength, commandID |-> commandID,
     commandStatus |-> commandStatus, sequenceNumber |-> sequenceNumber,
     stream |-> stream, more |-> more]

\* A well-formed frame.
Frame(commandID, commandStatus, sequenceNumber, body) ==
    RawFrame(HeaderLen + Len(body), commandID, commandStatus, sequenceNumber,
             body, FALSE)

\* connection.readPDU: ioOK is whether the header arrives before the
\* deadline; allocOK is whether make([]byte, n) succeeds for n >= 2^31 (it
\* panics where int has 32 bits).  hdr is the commandLength read (-1: none),
\* bodyLength the number of bytes asked of io.ReadFull for the body and
\* bodyLen the len of the body returned, both as uint32 limbs.  A body
\* longer than the model's stream is represented by that stream.
readPDU(cn, frame, ioOK, allocOK) ==
    LET fail(err, hdr, n) ==
            [err |-> err, pdu |-> NoPDU, hdr |-> hdr, bodyLength |-> n,
             bodyLen |-> <<0, 0>>]
        ok(body, n) ==
            [err |-> ErrNil,
             pdu |-> [commandLength |-> frame.commandLength,
                      commandID |-> frame.commandID,
                      commandStatus |-> frame.commandStatus,
                      sequenceNumber |-> frame.sequenceNumber,
                      body |-> body],
             hdr |-> frame.commandLength, bodyLength |-> n, bodyLen |-> n]
    IN  IF cn = NoSock THEN fail(ErrNotConnected, -1, <<0, 0>>)
        ELSE IF ~ioOK THEN fail(ErrRead, -1, <<0, 0>>)
        ELSE LET bodyLength == Sub32(frame.commandLength, HeaderLen)
             IN  IF bodyLength = <<0, 0>> THEN ok(<<>>, <<0, 0>>)
                 ELSE IF bodyLength[1] >= HighBit /\ ~allocOK
                 THEN fail(ErrPanic, frame.commandLength, bodyLength)
                 ELSE IF bodyLength[1] = 0
                         /\ bodyLength[2] <= Len(frame.stream)
                 THEN ok(SubSeq(frame.stream, 1, bodyLength[2]), bodyLength)
                 ELSE IF frame.more THEN ok(frame.stream, bodyLength)
                 ELSE fail(ErrRead, frame.commandLength, bodyLength)

sendPDUNoRead(werr, exchange) == "idle"

\* Client.sendPDU: where the caller is after writePDU returned werr: back
\* in its handler with the error, or blocked in readPDU of the exchange.
sendPDU(werr, exchange) == IF werr # ErrNil THEN "idle" ELSE exchange

----------------------------------------------------------------------------
(* Client: the PDUs it builds *)

bindPDU(seq) ==
    LET p0 == newPDU(BIND_TRANSMITTER, seq)
        p1 == writeString(p0, systemID)
        p2 == writeString(p1, password)
        p3 == writeString(p2, <<>>)      \* system_type
        p4 == writeByte(p3, 52)          \* interface version 0x34
        p5 == writeByte(p4, 0)           \* addr_ton
        p6 == writeByte(p5, 0)           \* addr_npi
    IN  writeString(p6, <<>>)            \* address_range

dataCodingOf(msg) ==
    IF msg.IsUnicode THEN 8 ELSE IF msg.IsBinary THEN 4 ELSE 0

esmClassOf(msg) == IF msg.IsBinary THEN 4 ELSE 0

regDeliveryOf(msg) == IF msg.RequestDeliveryReport THEN 1 ELSE 0

\* submit_sm up to and including sm_default_msg_id
submitHead(msg, seq) ==
    LET p0 == newPDU(SUBMIT_SM, seq)
        p1 == writeString(p0, <<>>)                \* service_type
        p2 == writeByte(writeByte(p1, 0), 0)       \* source ton, npi
        p3 == writeString(p2, msg.SourceAddr)
        p4 == writeByte(writeByte(p3, 1), 1)       \* dest ton, npi
        p5 == writeString(p4, msg.DestAddr)
        p6 == writeByte(p5, esmClassOf(msg))       \* esm_class
        p7 == writeByte(writeByte(p6, 0), 0)       \* protocol_id, priority
        p8 == writeString(writeString(p7, <<>>), <<>>) \* schedule, validity
        p9 == writeByte(p8, regDeliveryOf(msg))    \* registered_delivery
        p10 == writeByte(p9, 0)                    \* replace_if_present
        p11 == writeByte(p10, dataCodingOf(msg))   \* data_coding
    IN  writeByte(p11, 0)                          \* sm_default_msg_id

tooLongOffByOne(n) == n > MaxShortMessage + 1

tooLong(n) == n > MaxShortMessage

\* sm_length and short_message
submitPDU(msg, seq) ==
    write(writeByte(submitHead(msg, seq), ToByte(Len(msg.Message))),
          msg.Message)

unbindPDU(seq) == newPDU(UNBIND, seq)

errorMessageNoThrottle(status) ==
    CASE status = 1 -> "message ID invalid"
      [] status = 2 -> "bind failed"
      [] status = 3 -> "invalid priority flag"
      [] status = 4 -> "invalid registered delivery flag"
      [] status = 5 -> "system error"
      [] status = 6 -> "invalid source address"
      [] status = 7 -> "invalid destination address"
      [] status = 8 -> "invalid message ID"
      [] status = 10 -> "invalid message"
      [] OTHER -> "unknown error"

errorMessage(status) ==
    CASE status = 1 -> "message ID invalid"
      [] status = 2 -> "bind failed"
      [] status = 3 -> "invalid priority flag"
      [] status = 4 -> "invalid registered delivery flag"
      [] status = 5 -> "system error"
      [] status = 6 -> "invalid source address"
      [] status = 7 -> "invalid destination address"
      [] status = 8 -> "invalid message ID"
      [] status = 10 -> "invalid message"
      [] status = 88 -> "throttled - rate limit exceeded"
      [] OTHER -> "unknown error"

messageIDOf(body) ==
    IF Len(body) > 0
    THEN IF body[Len(body)] = 0 THEN SubSeq(body, 1, Len(body) - 1) ELSE body
    ELSE <<>>

----------------------------------------------------------------------------
(* Calls and returns *)

NoRet == [done |-> FALSE, err |-> ErrNil, id |-> <<>>, code |-> 0,
          label |-> "", exchErr |-> "none", seq |-> 0,
          part |-> 0, of |-> 0, cause |-> ErrNil,
          hdr |-> -1, bodyLength |-> <<0, 0>>, bodyLen |-> <<0, 0>>,
          closed |-> {}]

Ret(err) == [NoRet EXCEPT !.done = TRUE, !.err = err]

\* The frame of a call: its arguments, the locals of SendLongSMS (i,
\* partCount, firstMessageID), and what the call has written so far: the
\* number of submit_sm PDUs (nsent) and their payloads in order (sent).
CallFrame(id, op, msg) ==
    [id |-> id, op |-> op, msg |-> msg, i |-> 0, partCount |-> 0,
     firstMessageID |-> <<>>, nsent |-> 0, sent |-> <<>>]

NewCall(op, msg) == CallFrame(call.id + 1, op, msg)

notBoundNever(b) == FALSE

\* SendSMS: if !c.bound
notBound(b) == ~b

Init ==
    /\ bound = FALSE
    /\ sequenceNum = 1
    /\ conn = NoSock
    /\ openSocks = {}
    /\ pc = "idle"
    /\ pending = <<>>
    /\ call = CallFrame(0, "NewClient", NoMsg)
    /\ ret = Ret(ErrNil)
    /\ req = NoPDU
    /\ resp = NoPDU
    /\ written = 0
    /\ settled = 0

----------------------------------------------------------------------------
(* What a blocking readPDU can return: an error (timeout, EOF, I/O), or    *)
(* the gateway's answer to the oldest request it has not answered.         *)

Header(p) == [commandID |-> p.commandID, sequenceNumber |-> p.sequenceNumber]

\* The response ID of a request ID: the same ID with the high bit set.
RespID(commandID) == <<commandID[1] + HighBit, commandID[2]>>

\* The frames the gateway may send in answer to request h: the matching
\* response with any status, with any body when it succeeds or throttles,
\* or a success frame of any response ID.
Answers(h) ==
    {Frame(RespID(h.commandID), st, h.sequenceNumber, <<>>) :
       st \in PeerStatuses} \cup
    {Frame(RespID(h.commandID), st, h.sequenceNumber, b) :
       st \in {0, 88}, b \in PeerBodies} \cup
    {Frame(cid, 0, h.sequenceNumber, <<65, 0>>) : cid \in PeerCommandIDs}

Reads ==
    {readPDU(conn, NoPDU, FALSE, TRUE)} \cup
    (IF pending = <<>> THEN {}
     ELSE {readPDU(conn, f, TRUE, TRUE) : f \in Answers(Head(pending))})

AfterRead(r) == IF r.err = ErrNil THEN Tail(pending) ELSE pending

AfterWrite(w, q) == IF w.wrote THEN Append(q, Header(w.pdu)) ELSE q

Count(w) == IF w.wrote THEN 1 ELSE 0

----------------------------------------------------------------------------
(* Client.Connect, up to the readPDU of bind *)

Connect ==
    /\ pc = "idle"
    /\ call.id < MaxCalls
    /\ \E useTLS \in BOOLEAN, dialOK \in BOOLEAN, ioOK \in BOOLEAN :
         LET sock == call.id + 1
             d == IF useTLS THEN connectTLS(conn, sock, dialOK)
                  ELSE connect(conn, sock, dialOK)
             ns == nextSequence(sequenceNum)
             w == writePDU(d.conn, bindPDU(ns.seq), ioOK)
             next == sendPDU(w.err, "bind")
             cl == close(d.conn, ErrNil)
         IN  /\ call' = NewCall("Connect", NoMsg)
             /\ resp' = NoPDU
             /\ IF d.err # ErrNil
                THEN /\ ret' = Ret(d.err)
                     /\ UNCHANGED <<bound, sequenceNum, conn, openSocks, pc,
                                    pending, req, written, settled>>
                ELSE /\ sequenceNum' = ns.next
                     /\ written' = written + Count(w)
                     /\ req' = IF w.wrote THEN w.pdu ELSE req
                     /\ pc' = next
                     /\ UNCHANGED <<bound, settled>>
                     /\ IF next = "idle"
                        THEN /\ conn' = cl.conn
                             /\ openSocks' =
                                  (openSocks \cup d.opened) \ cl.closed
                             /\ pending' = <<>>
                             /\ ret' = Ret(w.err)
                        ELSE /\ conn' = d.conn
                             /\ openSocks' = openSocks \cup d.opened
                             /\ pending' = AfterWrite(w, <<>>)
                             /\ ret' = NoRet

(* bind and Connect, from the return of readPDU *)
BindRead ==
    /\ pc = "bind"
    /\ \E r \in Reads :
         LET cl == close(conn, ErrNil)
             failed == r.err # ErrNil \/ r.pdu.commandStatus # 0
         IN  /\ pc' = "idle"
             /\ settled' = settled + 1
             /\ resp' = r.pdu
             /\ IF failed
                THEN /\ ret' = Ret(IF r.err # ErrNil THEN r.err
                                   ELSE ErrBindFailed)
                     /\ conn' = cl.conn
                     /\ openSocks' = openSocks \ cl.closed
                     /\ pending' = <<>>
                     /\ UNCHANGED bound
                ELSE /\ bound' = TRUE
                     /\ ret' = Ret(ErrNil)
                     /\ pending' = AfterRead(r)
                     /\ UNCHANGED <<conn, openSocks>>
             /\ UNCHANGED <<sequenceNum, call, req, written>>

----------------------------------------------------------------------------
(* Client.SendSMS, up to the readPDU *)

SendSMS ==
    /\ pc = "idle"
    /\ call.id < MaxCalls
    /\ \E msg \in Messages, ioOK \in BOOLEAN :
         LET ns == nextSequence(sequenceNum)
             w == writePDU(conn, submitPDU(msg, ns.seq), ioOK)
             next == sendPDU(w.err, "submit")
         IN  /\ call' = NewCall("SendSMS", msg)
             /\ resp' = NoPDU
             /\ UNCHANGED <<bound, conn, openSocks, settled>>
             /\ IF notBound(bound)
                THEN /\ ret' = Ret(ErrNotBound)
                     /\ UNCHANGED <<sequenceNum, pc, pending, req, written>>
                ELSE /\ sequenceNum' = ns.next
                     /\ IF tooLong(Len(msg.Message))
                        THEN /\ ret' = Ret(ErrTooLong)
                             /\ UNCHANGED <<pc, pending, req, written>>
                        ELSE /\ written' = written + Count(w)
                             /\ req' = IF w.wrote THEN w.pdu ELSE req
                             /\ pending' = AfterWrite(w, pending)
                             /\ pc' = next
                             /\ ret' = IF next = "idle" THEN Ret(w.err)
                                       ELSE NoRet

\* SendSMS that drops the session when the submission fails
SubmitReadTearsDown ==
    /\ pc = "submit"
    /\ \E r \in Reads :
         LET failed == r.err # ErrNil \/ r.pdu.commandStatus # 0
             cl == close(conn, ErrNil)
         IN  /\ pc' = "idle"
             /\ settled' = settled + 1
             /\ resp' = r.pdu
             /\ pending' = IF failed THEN <<>> ELSE AfterRead(r)
             /\ ret' = IF r.err # ErrNil THEN Ret(r.err)
                       ELSE IF r.pdu.commandStatus # 0
                       THEN [Ret(ErrStatus) EXCEPT
                               !.code = r.pdu.commandStatus,
                               !.label = errorMessage(r.pdu.commandStatus)]
                       ELSE [Ret(ErrNil) EXCEPT
                               !.id = messageIDOf(r.pdu.body)]
             /\ bound' = IF failed THEN FALSE ELSE bound
             /\ conn' = IF failed THEN cl.conn ELSE conn
             /\ openSocks' = IF failed THEN openSocks \ cl.closed
                             ELSE openSocks
         /\ UNCHANGED <<sequenceNum, call, req, written>>

(* SendSMS, from the return of readPDU *)
SubmitRead ==
    /\ pc = "submit"
    /\ \E r \in Reads :
         /\ pc' = "idle"
         /\ settled' = settled + 1
         /\ resp' = r.pdu
         /\ pending' = AfterRead(r)
         /\ ret' = IF r.err # ErrNil THEN Ret(r.err)
                   ELSE IF r.pdu.commandStatus # 0
                   THEN [Ret(ErrStatus) EXCEPT
                           !.code = r.pdu.commandStatus,
                           !.label = errorMessage(r.pdu.commandStatus)]
                   ELSE [Ret(ErrNil) EXCEPT !.id = messageIDOf(r.pdu.body)]
         /\ UNCHANGED <<bound, sequenceNum, conn, openSocks, call, req,
                        written>>

----------------------------------------------------------------------------
(* Client.SendLongSMS *)

\* msg.Message[start:end] of part i (0-based)
partMsg(msg, i) ==
    LET maxLength == maxLengthOf(msg)
        messageLen == Len(msg.Message)
        start == i * maxLength
        end == IF start + maxLength > messageLen THEN messageLen
               ELSE start + maxLength
    IN  [msg EXCEPT !.Message = SubSeq(msg.Message, start + 1, end)]

partCountOfFloor(msg) == Len(msg.Message) \div maxLengthOf(msg)

\* (messageLen + maxLength - 1) / maxLength
partCountOf(msg) ==
    (Len(msg.Message) + maxLengthOf(msg) - 1) \div maxLengthOf(msg)

\* SendSMS(m) from its first statement to the readPDU of sendPDU, in the
\* current state: the error it returns with, or reading = TRUE.
submitStart(m, ioOK) ==
    LET ns == nextSequence(sequenceNum)
        w == writePDU(conn, submitPDU(m, ns.seq), ioOK)
    IN  IF notBound(bound)
        THEN [err |-> ErrNotBound, sequenceNum |-> sequenceNum,
              wrote |-> FALSE, pdu |-> NoPDU, reading |-> FALSE]
        ELSE IF tooLong(Len(m.Message))
        THEN [err |-> ErrTooLong, sequenceNum |-> ns.next,
              wrote |-> FALSE, pdu |-> NoPDU, reading |-> FALSE]
        ELSE [err |-> w.err, sequenceNum |-> ns.next, wrote |-> w.wrote,
              pdu |-> w.pdu, reading |-> sendPDU(w.err, "part") = "part"]

PartErrZeroBased(i, partCount, r) ==
    [r EXCEPT !.done = TRUE, !.err = ErrPart, !.cause = r.err, !.id = <<>>,
              !.part = i, !.of = partCount]

\* fmt.Errorf("failed to send part %d/%d: %w", i+1, partCount, err)
PartErr(i, partCount, r) ==
    [r EXCEPT !.done = TRUE, !.err = ErrPart, !.cause = r.err, !.id = <<>>,
              !.part = i + 1, !.of = partCount]

firstMessageIDLatest(i, messageID, firstMessageID) == messageID

\* if i == 0 { firstMessageID = messageID }
firstMessageIDOf(i, messageID, firstMessageID) ==
    IF i = 0 THEN messageID ELSE firstMessageID

\* the frame after the call wrote the PDU of start s for message m
Sent(frame, m, s) ==
    IF s.wrote
    THEN [frame EXCEPT !.nsent = @ + 1, !.sent = @ \o m.Message]
    ELSE frame

(* SendLongSMS, up to the first readPDU *)
SendLongSMS ==
    /\ pc = "idle"
    /\ call.id < MaxCalls
    /\ \E msg \in LongMessages, ioOK \in BOOLEAN :
         LET single == Len(msg.Message) <= maxLengthOf(msg)
             m == IF single THEN msg ELSE partMsg(msg, 0)
             s == submitStart(m, ioOK)
             frame == [NewCall("SendLongSMS", msg) EXCEPT
                         !.partCount = IF single THEN 0 ELSE partCountOf(msg)]
         IN  /\ call' = Sent(frame, m, s)
             /\ resp' = NoPDU
             /\ sequenceNum' = s.sequenceNum
             /\ written' = written + Count(s)
             /\ req' = IF s.wrote THEN s.pdu ELSE req
             /\ pending' = AfterWrite(s, pending)
             /\ pc' = IF ~s.reading THEN "idle"
                      ELSE IF single THEN "submit" ELSE "part"
             /\ ret' = IF s.reading THEN NoRet
                       ELSE IF single THEN Ret(s.err)
                       ELSE PartErr(0, frame.partCount, Ret(s.err))
             /\ UNCHANGED <<bound, conn, openSocks, settled>>

(* SendLongSMS, from the return of the readPDU of part i to the readPDU of *)
(* part i + 1 or to its return *)
PartRead ==
    /\ pc = "part"
    /\ \E r \in Reads, ioOK \in BOOLEAN :
         LET i == call.i
             result ==
                 IF r.err # ErrNil THEN Ret(r.err)
                 ELSE IF r.pdu.commandStatus # 0
                 THEN [Ret(ErrStatus) EXCEPT
                         !.code = r.pdu.commandStatus,
                         !.label = errorMessage(r.pdu.commandStatus)]
                 ELSE [Ret(ErrNil) EXCEPT !.id = messageIDOf(r.pdu.body)]
             first == firstMessageIDOf(i, result.id, call.firstMessageID)
             m == partMsg(call.msg, i + 1)
             s == submitStart(m, ioOK)
         IN  /\ settled' = settled + 1
             /\ resp' = r.pdu
             /\ UNCHANGED <<bound, conn, openSocks>>
             /\ IF result.err # ErrNil
                THEN /\ ret' = PartErr(i, call.partCount, result)
                     /\ pc' = "idle"
                     /\ pending' = AfterRead(r)
                     /\ UNCHANGED <<sequenceNum, call, req, written>>
                ELSE IF i + 1 >= call.partCount
                THEN /\ ret' = [Ret(ErrNil) EXCEPT !.id = first]
                     /\ pc' = "idle"
                     /\ pending' = AfterRead(r)
                     /\ call' = [call EXCEPT !.firstMessageID = first]
                     /\ UNCHANGED <<sequenceNum, req, written>>
                ELSE /\ call' = Sent([call EXCEPT !.i = i + 1,
                                                  !.firstMessageID = first],
                                     m, s)
                     /\ sequenceNum' = s.sequenceNum
                     /\ written' = written + Count(s)
                     /\ req' = IF s.wrote THEN s.pdu ELSE req
                     /\ pending' = AfterWrite(s, AfterRead(r))
                     /\ pc' = IF s.reading THEN "part" ELSE "idle"
                     /\ ret' = IF s.reading THEN NoRet
                               ELSE PartErr(i + 1, call.partCount, Ret(s.err))

----------------------------------------------------------------------------
(* Client.Disconnect, up to the readPDU of unbind *)

Disconnect ==
    /\ pc = "idle"
    /\ call.id < MaxCalls
    /\ \E ioOK \in BOOLEAN, closeErr \in {ErrNil, ErrClose} :
         LET ns == nextSequence(sequenceNum)
             w == writePDU(conn, unbindPDU(ns.seq), ioOK)
             next == sendPDU(w.err, "unbind")
             cl == close(conn, closeErr)
         IN  /\ call' = NewCall("Disconnect", NoMsg)
             /\ resp' = NoPDU
             /\ UNCHANGED <<bound, settled>>
             /\ IF bound
                THEN /\ sequenceNum' = ns.next
                     /\ written' = written + Count(w)
                     /\ req' = IF w.wrote THEN w.pdu ELSE req
                     /\ pc' = next
                     /\ IF next = "idle"
                        THEN /\ conn' = cl.conn
                             /\ openSocks' = openSocks \ cl.closed
                             /\ pending' = <<>>
                             /\ ret' = [Ret(w.err) EXCEPT !.exchErr = w.err]
                        ELSE /\ pending' = AfterWrite(w, pending)
                             /\ ret' = NoRet
                             /\ UNCHANGED <<conn, openSocks>>
                ELSE /\ conn' = cl.conn
                     /\ openSocks' = openSocks \ cl.closed
                     /\ pending' = <<>>
                     /\ ret' = Ret(cl.err)
                     /\ UNCHANGED <<sequenceNum, pc, req, written>>

(* Disconnect, from the return of readPDU *)
UnbindRead ==
    /\ pc = "unbind"
    /\ \E r \in Reads, closeErr \in {ErrNil, ErrClose} :
         LET cl == close(conn, closeErr)
         IN  /\ pc' = "idle"
             /\ settled' = settled + 1
             /\ resp' = r.pdu
             /\ conn' = cl.conn
             /\ openSocks' = openSocks \ cl.closed
             /\ pending' = <<>>
             /\ IF r.err # ErrNil
                THEN /\ ret' = [Ret(r.err) EXCEPT !.exchErr = r.err]
                     /\ UNCHANGED bound
                ELSE /\ bound' = FALSE
                     /\ ret' = [Ret(cl.err) EXCEPT !.exchErr = ErrNil]
             /\ UNCHANGED <<sequenceNum, call, req, written>>

----------------------------------------------------------------------------
(* The gateway never answers the oldest request it has. *)

PeerIgnore ==
    /\ pending # <<>>
    /\ pending' = Tail(pending)
    /\ UNCHANGED <<bound, sequenceNum, conn, openSocks, pc, call, ret, req,
                   resp, written, settled>>

Next ==
    \/ Connect
    \/ BindRead
    \/ SendSMS
    \/ SubmitRead
    \/ SendLongSMS
    \/ PartRead
    \/ Disconnect
    \/ UnbindRead
    \/ PeerIgnore

Spec == Init /\ [][Next]_vars

----------------------------------------------------------------------------
(* nextSequence on its own: a client whose counter is at 1 (new) or within *)
(* SeqWindow of 0x7FFFFFFF, and calls to nextSequence.                     *)

SeqStarts == {1} \cup {SeqMax - k : k \in 0..SeqWindow}

InitSeq ==
    /\ bound = FALSE
    /\ sequenceNum \in SeqStarts
    /\ conn = NoSock
    /\ openSocks = {}
    /\ pc = "idle"
    /\ pending = <<>>
    /\ call = CallFrame(0, IF sequenceNum = 1 THEN "NewClient"
                              ELSE "earlier calls", NoMsg)
    /\ ret = Ret(ErrNil)
    /\ req = NoPDU
    /\ resp = NoPDU
    /\ written = 0
    /\ settled = 0

NextSequenceCall ==
    /\ call.id < MaxSeqCalls
    /\ LET ns == nextSequence(sequenceNum)
       IN  /\ sequenceNum' = ns.next
           /\ call' = NewCall("nextSequence", NoMsg)
           /\ ret' = [Ret(ErrNil) EXCEPT !.seq = ns.seq]
    /\ UNCHANGED <<bound, conn, openSocks, pc, pending, req, resp, written,
                   settled>>

NextSeq == NextSequenceCall

SpecSeq == InitSeq /\ [][NextSeq]_vars

----------------------------------------------------------------------------
(* Steps and states the properties speak about *)

\* this step is the start of a call to op
Calls(op) == call'.id = call.id + 1 /\ call'.op = op

\* this step is the return of a call to op
Returns(op) == call'.op = op /\ ret'.done /\ (call'.id # call.id \/ ~ret.done)

\* the call to op has returned and no later call has started
Returned(op) == call.op = op /\ ret.done

\* offset of sm_length in the body of submit_sm: the mandatory fields before
MandatoryLen(msg) == 16 + Len(msg.SourceAddr) + Len(msg.DestAddr)

----------------------------------------------------------------------------
(* C1: a call to SendSMS while bound is false returns the not-bound error, *)
(* writes no PDU and leaves the transport and the counter as they were.    *)
C1_SendGatedByBound ==
    [][(Calls("SendSMS") /\ ~bound) =>
         /\ ret'.done /\ ret'.err = ErrNotBound
         /\ written' = written /\ req' = req /\ pending' = pending
         /\ pc' = "idle"]_vars

C1_Witness ==
    /\ Returned("SendSMS") /\ ret.err = ErrNotBound
    /\ ~bound /\ written >= 1

(* C2: whenever Connect returns, either it returned nil with bound true    *)
(* and the socket open, or it returned an error with the socket closed and *)
(* bound false.                                                            *)
C2_ConnectAllOrNothing ==
    Returned("Connect") =>
        \/ ret.err = ErrNil /\ bound /\ conn # NoSock /\ conn \in openSocks
        \/ ret.err # ErrNil /\ ~bound /\ conn = NoSock

(* C3: when Disconnect returns, the connection references no socket and    *)
(* the socket it referenced is closed; if the unbind exchange failed, the  *)
(* error returned is the error of that exchange.                           *)
C3_DisconnectClosesSocket ==
    [][Returns("Disconnect") =>
         /\ conn' = NoSock
         /\ conn \notin openSocks'
         /\ (ret'.exchErr \notin {"none", ErrNil} =>
                ret'.err = ret'.exchErr)]_vars

C3_Witness ==
    /\ Returned("Disconnect") /\ ret.exchErr = ErrRead /\ ret.err = ErrRead
    /\ conn = NoSock /\ openSocks = {} /\ written = 2

(* C4: after Disconnect returns, bound is false.                           *)
C4_DisconnectUnbinds == Returned("Disconnect") => ~bound

(* C5: bound goes from false to true only in the step that reads, in reply *)
(* to bind_transmitter, a bind_transmitter_resp PDU with status 0.         *)
C5_BoundOnlyOnBindResp ==
    [][(~bound /\ bound') =>
         /\ pc = "bind" /\ req.commandID = BIND_TRANSMITTER
         /\ resp'.commandID = BIND_TRANSMITTER_RESP
         /\ resp'.commandStatus = 0]_vars

(* C6: the PDU that bind or SendSMS takes as the outcome of its request    *)
(* carries the sequence number of the request just written.                *)
C6_ResponseCorrelated ==
    ((Returned("Connect") \/ Returned("SendSMS")) /\ resp # NoPDU) =>
        resp.sequenceNumber = req.sequenceNumber

(* C7: the first value nextSequence returns on a new client is 1, each     *)
(* later value is the previous one plus 1, except that 1 follows           *)
(* 0x7FFFFFFF; every value is in 1..0x7FFFFFFF.                            *)
C7_SequenceValues ==
    [][Calls("nextSequence") =>
         /\ ret'.seq >= 1 /\ ret'.seq <= SeqMax
         /\ (call.op = "NewClient" => ret'.seq = 1)
         /\ (call.op = "nextSequence" =>
               ret'.seq = IF ret.seq = SeqMax THEN 1 ELSE ret.seq + 1)]_vars

C7_Witness ==
    /\ call.op = "nextSequence" /\ call.id >= 2
    /\ ret.seq = 1 /\ sequenceNum = 2

(* C8: sequenceNum changes only in a step that writes a PDU, and that PDU  *)
(* carries the value the counter had (a write that the open socket fails   *)
(* by I/O error counts as the write of its PDU).                           *)
C8_SequencePerPDU ==
    [][sequenceNum' # sequenceNum =>
         \/ written' = written + 1 /\ req'.sequenceNumber = sequenceNum
         \/ ret'.done /\ ret'.err = ErrWrite]_vars

(* C9: a PDU is written only when every earlier exchange has been settled *)
(* (before the step or, between two parts of SendLongSMS, by the read the  *)
(* step starts with), so at most one request is outstanding, and none      *)
(* between calls.                                                          *)
C9_OneOutstanding ==
    [][/\ (written' = written + 1 =>
              written = settled \/ settled' = settled + 1)
       /\ written' - settled' \in {0, 1}
       /\ (pc' = "idle" <=> written' = settled')]_vars

C9_Witness ==
    /\ pc = "submit" /\ written = settled + 1
    /\ Len(pending) = 2 /\ written = 3

----------------------------------------------------------------------------
(* SendLongSMS *)

\* the per-part length of the claim
PartLen(msg) == IF msg.IsUnicode THEN 67 ELSE 153

\* ceil(n / L)
CeilDiv(n, L) == CHOOSE k \in 0..n : k * L >= n /\ (k = 0 \/ (k - 1) * L < n)

\* a message ID as SendSMS extracts it from a response body
StripNul(body) ==
    IF body # <<>> /\ body[Len(body)] = 0
    THEN SubSeq(body, 1, Len(body) - 1) ELSE body

C12_AbortAtFirstFailure ==
    (Returned("SendLongSMS") /\ call.partCount > 0 /\ ret.err # ErrNil) =>
        /\ ret.err = ErrPart
        /\ ret.cause \in {ErrNotBound, ErrNotConnected, ErrWrite, ErrRead,
                          ErrStatus}
        /\ (ret.cause = ErrStatus =>
              resp.commandStatus # 0 /\ ret.code = resp.commandStatus)
        /\ ret.of = CeilDiv(Len(call.msg.Message), PartLen(call.msg))
        /\ ret.part \in 1..ret.of
        /\ call.nsent = IF ret.cause \in {ErrRead, ErrStatus}
                        THEN ret.part ELSE ret.part - 1
        /\ ret.id = <<>>

C12_Witness ==
    /\ Returned("SendLongSMS") /\ ret.err = ErrPart
    /\ ret.part = 2 /\ ret.of = 3 /\ call.nsent = 2
    /\ ret.cause = ErrStatus /\ ret.code = 88
    /\ call.firstMessageID = <<65>> /\ ret.id = <<>>

(* C13: in a multi-part SendLongSMS the ID kept is the one extracted from  *)
(* the response read for the first part, the responses read for later      *)
(* parts do not change it, and it is the ID a successful call returns.     *)
C13_FirstMessageID ==
    [][/\ (pc = "part" /\ pc' = "part" /\ call.i = 0) =>
            call'.firstMessageID = StripNul(resp'.body)
       /\ (pc = "part" /\ call.i > 0) =>
            call'.firstMessageID = call.firstMessageID
       /\ (Returns("SendLongSMS") /\ call'.partCount > 0
             /\ ret'.err = ErrNil) =>
            ret'.id = call'.firstMessageID]_vars

C13_Witness ==
    /\ Returned("SendLongSMS") /\ ret.err = ErrNil /\ call.partCount = 3
    /\ ret.id = <<65>> /\ resp.body = <<66>>

----------------------------------------------------------------------------
(* C14: the data_coding byte of every submit_sm written is 0x04 when       *)
(* IsBinary is set (also when IsUnicode is set too), 0x08 when only        *)
(* IsUnicode is set, and 0 when neither is.                                *)
C14_DataCoding ==
    [][(written' = written + 1 /\ req'.commandID = SUBMIT_SM) =>
         req'.body[MandatoryLen(call'.msg) - 1] =
             IF call'.msg.IsBinary THEN 4
             ELSE IF call'.msg.IsUnicode THEN 8 ELSE 0]_vars

\* the status codes SendSMS has a label for
WellKnown == (1..8) \cup {10, 88}

(* C15: a response to SendSMS with nonzero status s gives the status error *)
(* with code s, the label of s ("unknown error" when s has none) and no    *)
(* message ID; a response with status 0 gives no error.                    *)
C15_StatusError ==
    (Returned("SendSMS") /\ resp # NoPDU) =>
        IF resp.commandStatus # 0
        THEN /\ ret.err = ErrStatus
             /\ ret.code = resp.commandStatus
             /\ ret.id = <<>>
             /\ (ret.code = 88 =>
                   ret.label = "throttled - rate limit exceeded")
             /\ (ret.code = 5 => ret.label = "system error")
             /\ (ret.label = "unknown error" <=> ret.code \notin WellKnown)
        ELSE ret.err = ErrNil

C15_Witness ==
    /\ Returned("SendSMS") /\ resp.commandStatus = 88
    /\ resp.body = <<65, 0>>
    /\ ret.err = ErrStatus /\ ret.code = 88 /\ ret.id = <<>>
    /\ ret.label = "throttled - rate limit exceeded"

----------------------------------------------------------------------------
(* The methods of connection on their own: a connection with or without a  *)
(* socket, PDUs whose commandLength is stale, and frames whose header      *)
(* announces less than, exactly or more than what follows it.              *)

OutPDUs ==
    {[p EXCEPT !.commandLength = c] :
       p \in {unbindPDU(1), bindPDU(1), writeByte(unbindPDU(1), 7),
              submitPDU(Msg(1, FALSE, FALSE, FALSE), 1)},
       c \in {0, HeaderLen, 99}}

HeaderLengths == {0, 8, 15, 16, 17, 18, 19}

InFrames ==
    {RawFrame(cl, SUBMIT_SM_RESP, st, 1, b, more) :
       cl \in HeaderLengths, st \in {0, 88}, b \in PeerBodies,
       more \in BOOLEAN}

InitRead ==
    /\ bound = FALSE
    /\ sequenceNum = 1
    /\ conn \in {NoSock, 1}
    /\ openSocks = {conn} \ {NoSock}
    /\ pc = "idle"
    /\ pending = <<>>
    /\ call = CallFrame(0, "newConnection", NoMsg)
    /\ ret = Ret(ErrNil)
    /\ req = NoPDU
    /\ resp = NoPDU
    /\ written = 0
    /\ settled = 0

WritePDUCall ==
    /\ call.id < MaxIOCalls
    /\ \E p \in OutPDUs, ioOK \in BOOLEAN :
         LET w == writePDU(conn, p, ioOK)
         IN  /\ call' = NewCall("writePDU", NoMsg)
             /\ ret' = Ret(w.err)
             /\ req' = IF w.wrote THEN w.pdu ELSE req
             /\ written' = written + Count(w)
    /\ UNCHANGED <<bound, sequenceNum, conn, openSocks, pc, pending, resp,
                   settled>>

ReadPDUCall ==
    /\ call.id < MaxIOCalls
    /\ \E f \in InFrames, ioOK \in BOOLEAN, allocOK \in BOOLEAN :
         LET r == readPDU(conn, f, ioOK, allocOK)
         IN  /\ call' = NewCall("readPDU", NoMsg)
             /\ ret' = [Ret(r.err) EXCEPT !.hdr = r.hdr,
                                          !.bodyLength = r.bodyLength,
                                          !.bodyLen = r.bodyLen]
             /\ resp' = r.pdu
             /\ settled' = settled + 1
    /\ UNCHANGED <<bound, sequenceNum, conn, openSocks, pc, pending, req,
                   written>>

\* close that reports a connection without a socket as an error
CloseCallStrict ==
    /\ call.id < MaxIOCalls
    /\ \E closeErr \in {ErrNil, ErrClose} :
         LET cl == IF conn = NoSock
                   THEN [err |-> ErrNotConnected, conn |-> NoSock,
                         closed |-> {}]
                   ELSE close(conn, closeErr)
         IN  /\ call' = NewCall("close", NoMsg)
             /\ ret' = [Ret(cl.err) EXCEPT !.closed = cl.closed]
             /\ conn' = cl.conn
             /\ openSocks' = openSocks \ cl.closed
    /\ UNCHANGED <<bound, sequenceNum, pc, pending, req, resp, written,
                   settled>>

\* ret.closed is the set of sockets the call closed
CloseCall ==
    /\ call.id < MaxIOCalls
    /\ \E closeErr \in {ErrNil, ErrClose} :
         LET cl == close(conn, closeErr)
         IN  /\ call' = NewCall("close", NoMsg)
             /\ ret' = [Ret(cl.err) EXCEPT !.closed = cl.closed]
             /\ conn' = cl.conn
             /\ openSocks' = openSocks \ cl.closed
    /\ UNCHANGED <<bound, sequenceNum, pc, pending, req, resp, written,
                   settled>>

NextRead ==
    \/ WritePDUCall
    \/ ReadPDUCall
    \/ CloseCall

SpecRead == InitRead /\ [][NextRead]_vars

(* C16: readPDU fails when the commandLength it read is below 16, without  *)
(* asking for commandLength - 16 wrapped to 32 bits as a number of body    *)
(* bytes.                                                                  *)
C16_ShortHeaderRejected ==
    (Returned("readPDU") /\ ret.hdr >= 0 /\ ret.hdr < 16) =>
        /\ ret.err \notin {ErrNil, ErrPanic}
        /\ ret.bodyLength = <<0, 0>>

(* C17: every PDU written by writePDU has commandLength = 16 + len(body),  *)
(* whatever commandLength held before; every PDU returned by readPDU has   *)
(* commandLength = 16 + len(body).                                         *)
C17_CommandLength ==
    /\ (Returned("writePDU") /\ ret.err = ErrNil) =>
          req.commandLength = 16 + Len(req.body)
    /\ (Returned("readPDU") /\ ret.err = ErrNil) =>
          /\ resp.commandLength >= 16
          /\ ret.bodyLen = <<0, resp.commandLength - 16>>
          /\ Len(resp.body) = resp.commandLength - 16

(* C18: close on a connection without a socket (never opened or already    *)
(* closed) returns no error and changes nothing; after any close the       *)
(* connection has no socket, so a second close would change nothing.       *)
C18_CloseIdempotent ==
    [][Calls("close") =>
         /\ conn' = NoSock
         /\ conn = NoSock =>
               /\ ret'.err = ErrNil
               /\ UNCHANGED <<conn, openSocks, bound, sequenceNum, pending>>
         /\ \A closeErr \in {ErrNil, ErrClose} :
               close(conn', closeErr) =
                   [err |-> ErrNil, conn |-> conn', closed |-> {}]]_vars

C18_Witness ==
    /\ Returned("close") /\ call.id = 2
    /\ ret.closed = {} /\ ret.err = ErrNil
    /\ conn = NoSock /\ openSocks = {}

(* C19: Disconnect called while bound is false writes nothing and only     *)
(* closes the transport; called while bound is true it writes exactly one  *)
(* unbind PDU (unless the socket refuses the write); when the unbind       *)
(* response is read, whatever its commandStatus, Disconnect clears bound,  *)
(* closes the socket and returns the result of close.                      *)
C19_UnbindIffBound ==
    [][/\ (Calls("Disconnect") /\ ~bound) =>
             /\ written' = written
             /\ ret'.done /\ ret'.err \in {ErrNil, ErrClose}
             /\ conn' = NoSock /\ conn \notin openSocks'
       /\ (Calls("Disconnect") /\ bound) =>
             \/ /\ written' = written + 1
                /\ req' = [unbindPDU(sequenceNum) EXCEPT
                             !.commandLength = HeaderLen]
             \/ ret'.done /\ ret'.err = ErrWrite /\ written' = written
       /\ (Returns("Disconnect") /\ pc = "unbind" /\ resp' # NoPDU) =>
             /\ written' = written
             /\ ~bound'
             /\ conn' = NoSock /\ conn \notin openSocks'
             /\ ret'.err \in {ErrNil, ErrClose}]_vars

\* the errors of a failed submission
SubmitFailures == {ErrTooLong, ErrStatus, ErrWrite, ErrNotConnected, ErrRead}

(* C20: no step of SendSMS changes bound or the socket, whatever the call  *)
(* returns; so after a SendSMS that failed as too long, with a nonzero     *)
(* status or with a write or read error the client is still bound, a      *)
(* socket it had is still open, and the next SendSMS with an acceptable    *)
(* payload writes one submit_sm PDU on that socket (unless the socket      *)
(* refuses the write).                                                     *)
C20_FailedSubmitKeepsSession ==
    [][/\ (Calls("SendSMS") \/ pc = "submit") =>
             UNCHANGED <<bound, conn, openSocks>>
       /\ (Returned("SendSMS") /\ ret.err \in SubmitFailures
             /\ Calls("SendSMS")) =>
             /\ bound
             /\ conn # NoSock => conn \in openSocks
             /\ (conn # NoSock /\ ~tooLong(Len(call'.msg.Message))) =>
                   \/ /\ written' = written + 1
                      /\ req'.commandID = SUBMIT_SM
                      /\ pc' = "submit"
                      /\ conn' = conn /\ conn' \in openSocks'
                   \/ ret'.done /\ ret'.err = ErrWrite]_vars

C20_Witness ==
    /\ pc = "submit" /\ call.op = "SendSMS" /\ call.id = 3
    /\ written = 2 /\ settled = 1 /\ sequenceNum = 4
    /\ bound /\ conn = 1 /\ conn \in openSocks

(* C21: at any time the client has at most one open socket and every       *)
(* socket that was opened and not yet closed is the one the connection     *)
(* references, so when Disconnect has returned no socket the client        *)
(* opened is still open.                                                   *)
C21_NoSocketLeak ==
    /\ Cardinality(openSocks) <= 1
    /\ openSocks \subseteq {conn} \ {NoSock}
    /\ Returned("Disconnect") => openSocks = {}

====
